---- MODULE Spec2Model ----
(***************************************************************************)
(* Breakwater credit admission for gRPC: the server-side Controller        *)
(* (credit pool, per-client issuance, RTT update, delay adapter, AQM) and  *)
(* the client-side Admitter (bounded queue, credit gate, escape hatch).    *)
(*                                                                         *)
(* Time is an integer count of microseconds.  A time.Now() whose value is   *)
(* stored first advances the clock by one microsecond, so stored           *)
(* timestamps are strictly increasing (Go's monotonic clock); Tick moves   *)
(* the clock by larger steps.                                              *)
(*                                                                         *)
(* Floating point values are modelled as exact rationals <<num, den>>.     *)
(***************************************************************************)
EXTENDS Integers, Sequences, FiniteSets, TLC

\* ------------------------------------------------------------------ bounds
MaxStamps == 4
MaxSmallTicks == 2
MaxBigTicks == 1
MaxSched == 1
MaxCalls == 2
MaxFirstCalls == 1

\* ------------------------------------------------------- program constants
RTT_MICROSECOND == 5000
MAX_Q_LENGTH == 50
SLO == 160
OneSecond == 1000000
TimeoutCredits == 99999999
TimeoutSeconds == 25

\* DELAY_THRESHOLD_PERCENT = 0.4 as the rational 2/5
DELAY_THRESHOLD_PERCENT == <<2, 5>>
\* BWParametersDefault.BFactor = 0.02, AFactor = 0.001
BFactor == <<1, 50>>
AFactorDefault == <<1, 1000>>

\* the clock's small step (one RTT) and the steps Tick may take
TickStep == RTT_MICROSECOND
TickSteps == {TickStep, OneSecond}

\* ------------------------------------------------------------ environment
Clients == {"c1", "c2"}
NoClient == "none"
Demands == {-2, 0, 3}
\* lower bounds (in microseconds) of the scheduler-latency buckets sampled
Buckets == <<10, 128, 1024, 4000>>
NB == Len(Buckets)
NilHist == <<>>
ZeroHist == [i \in 1..NB |-> 0]
NoTime == -2 * OneSecond

\* ----------------------------------------------------------------- utils
min(a, b) == IF a < b THEN a ELSE b

max(a, b) == IF a > b THEN a ELSE b

\* int64(math.Round(p/q)) for q > 0: half away from zero
roundedInt(p, q) ==
  IF p >= 0 THEN (2 * p + q) \div (2 * q)
  ELSE -((2 * (-p) + q) \div (2 * q))

thresholdDelay == (SLO * DELAY_THRESHOLD_PERCENT[1]) \div DELAY_THRESHOLD_PERCENT[2]

aqmDelay == thresholdDelay * 2

\* int64 stands in a 30-bit two's-complement width (TLC integers are 32 bit):
\* only the sign of a wrapped sum and the saturated conversions matter
INT_MAX == (2 ^ 29) - 1

INT_MIN == -(2 ^ 29)

Wrap(x) == ((x - INT_MIN) % (2 ^ 30)) + INT_MIN

\* ------------------------------------------------------------------ state
VARIABLES
  \* Controller (Breakwater struct, server side)
  clientMap,        \* id -> Connection value [issued |-> n], registered ids only
  issuedWriteLock,  \* id -> tokens in the stored Connection's issuedWriteLock
  lastUpdated,      \* id -> time held by the stored Connection's lastUpdated
                    \*       channel, NoTime while it is empty
  numClients,       \* value held by the numClients channel
  cIssued,          \* value held by the cIssued channel
  cTotal,
  lastUpdateTime,
  rttLock,          \* tokens in the rttLock channel
  queueingDelay,    \* owned by manageQueueingDelay
  prevHist, currHist,
  aFactor, loadShedding, useClientTimeExpiration,
  \* environment
  now,              \* the clock
  schedHist,        \* the runtime's /sched/latencies histogram counts
  \* record of the last completed operation and of RTT commits
  last,
  commits,          \* number of committed RTT updates
  prevCommitTime,   \* lastUpdateTime replaced by the latest commit
  granted,          \* ids whose Connection has been stored by issuance
  serviced,         \* ids issued to since the latest commit (or server start)
  \* server workers (one goroutine per request, then its rttUpdate goroutine)
  pc, loc,
  calls,            \* number of requests the server has started to serve
  \* Admitter (client side)
  pendingOutgoing,  \* number of entries in the pendingOutgoing channel
  outgoingCredits,  \* value held by the outgoingCredits channel
  noCreditBlocker,  \* tokens in the noCreditBlocker channel
  timer,            \* escape hatch: "armed", "fired" (credits set), "done"
  rpc, rq,          \* per outbound call: position and locals
  crowd,            \* further calls, queued and waiting at the gate
  hatched           \* ghost: the calls that were waiting at the gate when the
                    \*        escape hatch posted it; Unwatched where not recorded

ctlVars == <<clientMap, issuedWriteLock, lastUpdated, numClients, cIssued, cTotal,
             lastUpdateTime, rttLock, queueingDelay, prevHist, currHist>>

cfgVars == <<aFactor, loadShedding, useClientTimeExpiration>>

envVars == <<now, schedHist>>

ghostVars == <<last, commits, prevCommitTime, granted, serviced>>

workerVars == <<pc, loc, calls>>

clientVars == <<pendingOutgoing, outgoingCredits, noCreditBlocker, timer, rpc, rq,
                crowd, hatched>>

vars == <<ctlVars, cfgVars, envVars, ghostVars, workerVars, clientVars>>

\* ------------------------------------------------------- delay adapter
\* maximumQueuingDelayus: walk the buckets from the highest index down
RECURSIVE maxDelayFrom(_, _, _)
maxDelayFrom(earlier, later, i) ==
  IF i < 1 THEN 0
  ELSE IF later[i] > earlier[i] THEN Buckets[i]
  ELSE maxDelayFrom(earlier, later, i - 1)

maximumQueuingDelayus(earlier, later) == maxDelayFrom(earlier, later, NB)

\* getDelay on adapter state prev with the runtime histogram hist:
\* the sample returned and the new prevHist (= currHist)
getDelay(prev, hist) ==
  IF prev = NilHist THEN [delay |-> 0, prev |-> hist]
  ELSE [delay |-> maximumQueuingDelayus(prev, hist), prev |-> hist]

\* ------------------------------------------------------- credit pool (AIMD)
getAdditiveFactor(n) == max(roundedInt(aFactor[1] * n, aFactor[2]), 1)

\* faulty variant: the factor without its 0.5 floor
getMultiplicativeFactorNoFloor(delay) ==
  <<BFactor[2] * thresholdDelay - BFactor[1] * (delay - thresholdDelay),
    BFactor[2] * thresholdDelay>>

\* 1 - bFactor * (delay - thresholdDelay) / thresholdDelay, floored at 0.5
getMultiplicativeFactor(delay) ==
  LET num == BFactor[2] * thresholdDelay - BFactor[1] * (delay - thresholdDelay)
      den == BFactor[2] * thresholdDelay
  IN IF 2 * num >= den THEN <<num, den>> ELSE <<1, 2>>

\* faulty variant: the decrease without its two clamps (factor floor 0.5, result floor 1)
getUpdatedTotalCreditsUnclamped(delay, cT, n) ==
  IF delay < thresholdDelay THEN cT + getAdditiveFactor(n)
  ELSE roundedInt((BFactor[2] * thresholdDelay - BFactor[1] * (delay - thresholdDelay)) * cT,
                  BFactor[2] * thresholdDelay)

\* getUpdatedTotalCredits after its getDelay() returned delay
getUpdatedTotalCredits(delay, cT, n) ==
  IF delay < thresholdDelay THEN cT + getAdditiveFactor(n)
  ELSE LET f == getMultiplicativeFactor(delay)
       IN max(roundedInt(f[1] * cT, f[2]), 1)

\* ------------------------------------------------------- issuance policy
\* roundedInt(math.Max(float64(cTotal-cIssued)/float64(numClients), 1)): the set
\* of results.  With numClients = 0 the quotient is +Inf, -Inf or NaN and the
\* float-to-int conversion of +Inf or NaN is implementation-dependent.
calculateCreditsToOvercommit(cT, cI, n) ==
  IF n > 0 THEN {IF cT - cI > n THEN roundedInt(cT - cI, n) ELSE 1}
  ELSE IF cT - cI < 0 THEN {1}
  ELSE IF cT - cI > 0 THEN {INT_MIN, INT_MAX}
  ELSE {INT_MIN, 0}

\* faulty variant: max taken where the code takes min
getLowerCreditsIssuedMax(cOvercommit, demand, cPrevious) ==
  IF Wrap(demand + cOvercommit) < 0 THEN 1
  ELSE max(Wrap(demand + cOvercommit), cPrevious - 1)

getLowerCreditsIssued(cOvercommit, demand, cPrevious) ==
  IF Wrap(demand + cOvercommit) < 0 THEN 1
  ELSE min(Wrap(demand + cOvercommit), cPrevious - 1)

\* faulty variant: the cap cPrevious + cAvail left out
getHigherCreditsIssuedUncapped(cOvercommit, demand, cPrevious, cT, cI) ==
  IF Wrap(demand + cOvercommit) < 0 THEN 1
  ELSE Wrap(demand + cOvercommit)

\* cT, cI: b.cTotal and the cIssued value read inside getHigherCreditsIssued
getHigherCreditsIssued(cOvercommit, demand, cPrevious, cT, cI) ==
  IF Wrap(demand + cOvercommit) < 0 THEN 1
  ELSE min(Wrap(demand + cOvercommit), cPrevious + (cT - cI))

\* faulty variant: the grant returned without its floor of 1
calculateCreditsToIssueNoFloor(demand, connCPrevious, cOverCommit, cTb, cIb, cTh, cIh) ==
  IF cIb < cTb
  THEN getHigherCreditsIssued(cOverCommit, demand, connCPrevious, cTh, cIh)
  ELSE getLowerCreditsIssued(cOverCommit, demand, connCPrevious)

\* cTb, cIb: the values compared at the branch; cTh, cIh: those read by
\* getHigherCreditsIssued
calculateCreditsToIssue(demand, connCPrevious, cOverCommit, cTb, cIb, cTh, cIh) ==
  max(IF cIb < cTb
      THEN getHigherCreditsIssued(cOverCommit, demand, connCPrevious, cTh, cIh)
      ELSE getLowerCreditsIssued(cOverCommit, demand, connCPrevious), 1)

\* faulty variant: the decay without its floor of 1
autoDecrementNoFloor(connCPrevious) == connCPrevious - 1

\* faulty variant: the decay forgotten
autoDecrementNone(connCPrevious) == max(connCPrevious, 1)

\* cNew = max(connCPrevious-1, 1) of the "Auto Decr" branch
autoDecrement(connCPrevious) == max(connCPrevious - 1, 1)

\* faulty variant: every stamp taken to be later than the last RTT update
AfterAlways(t, u) == TRUE

\* connTimeOfLastUpdate.After(b.lastUpdateTime)
After(t, u) == t > u

\* ------------------------------------------------------------- helpers
MapPut(m, k, v) == [x \in (DOMAIN m) \cup {k} |-> IF x = k THEN v ELSE m[x]]

RECURSIVE SumIssued(_, _)
SumIssued(m, S) ==
  IF S = {} THEN 0
  ELSE LET k == CHOOSE x \in S : TRUE
       IN m[k].issued + SumIssued(m, S \ {k})

\* totalIssued of rttUpdate's clientMap.Range over an unchanging map
totalIssuedOf(m) == SumIssued(m, DOMAIN m)

RECURSIVE HistSum(_, _)
HistSum(h, i) == IF i < 1 THEN 0 ELSE h[i] + HistSum(h, i - 1)

\* histograms the runtime can show later than h (counts only grow)
HistsFrom(h) ==
  {g \in [1..NB -> 0..MaxSched] :
     /\ \A i \in 1..NB : g[i] >= h[i]
     /\ HistSum(g, NB) <= MaxSched}

StampOK == (now % TickStep) < MaxStamps

LastNone ==
  [op |-> "none", id |-> NoClient, demand |-> 0, cPrev |-> 0, cNew |-> 0,
   branch |-> "none", cTotal0 |-> 0, cIssued0 |-> 0, oc |-> 0,
   delay |-> 0, committed |-> FALSE, first |-> FALSE]

\* ------------------------------------------------------------------ Init
\* InitBreakwater, server side
InitController(initialCredits, aFactors, shedding) ==
  /\ clientMap = [c \in {} |-> [issued |-> 0]]
  /\ issuedWriteLock = [c \in Clients |-> 0]
  /\ lastUpdated = [c \in Clients |-> NoTime]
  /\ numClients = 0
  /\ cIssued = 0
  /\ cTotal \in initialCredits
  /\ lastUpdateTime = 0
  /\ rttLock = 1
  /\ queueingDelay = 0
  /\ prevHist = NilHist
  /\ currHist = NilHist
  /\ aFactor \in aFactors
  /\ loadShedding \in shedding
  /\ now = 0
  /\ schedHist = ZeroHist
  /\ last = LastNone
  /\ commits = 0
  /\ prevCommitTime = NoTime
  /\ granted = {}
  /\ serviced = {}

\* ------------------------------------------------------------ environment
Tick(step) ==
  /\ \/ step = TickStep /\ ((now % OneSecond) \div TickStep) < MaxSmallTicks
     \/ step = OneSecond /\ (now \div OneSecond) < MaxBigTicks
     \/ step = TimeoutSeconds * OneSecond /\ now < step
  /\ now' = now + step
  /\ UNCHANGED <<ctlVars, cfgVars, schedHist, ghostVars, workerVars, clientVars>>

\* a goroutine waited in the scheduler: one more count in bucket i
SchedLatency(i) ==
  /\ HistSum(schedHist, NB) < MaxSched
  /\ schedHist' = [schedHist EXCEPT ![i] = @ + 1]
  /\ UNCHANGED <<ctlVars, cfgVars, now, ghostVars, workerVars, clientVars>>

\* ------------------------------------------- operations, run to completion
\* RegisterClient(id, demand): LoadOrStore, then numClients + 1 when stored
RegisterClient(id, demand) ==
  /\ IF id \in DOMAIN clientMap
     THEN UNCHANGED <<clientMap, issuedWriteLock, lastUpdated, numClients, now>>
     ELSE /\ StampOK
          /\ clientMap' = MapPut(clientMap, id, [issued |-> 0])
          /\ issuedWriteLock' = [issuedWriteLock EXCEPT ![id] = 1]
          /\ lastUpdated' = [lastUpdated EXCEPT ![id] = (now + 1) - OneSecond]
          /\ numClients' = numClients + 1
          /\ now' = now + 1
  /\ last' = [LastNone EXCEPT !.op = "register", !.id = id,
                              !.committed = (id \in DOMAIN clientMap)]
  /\ UNCHANGED <<cIssued, cTotal, lastUpdateTime, rttLock, queueingDelay,
                 prevHist, currHist, cfgVars, schedHist, commits, prevCommitTime,
                 granted, serviced, workerVars, clientVars>>

\* faulty variant: an id not found is inserted and granted 1
updateCreditsToIssueInsert(id, demand) ==
  /\ IF id \notin DOMAIN clientMap
     THEN /\ last' = [LastNone EXCEPT !.op = "issue", !.id = id,
                                      !.branch = "notfound", !.cNew = 1]
          /\ clientMap' = MapPut(clientMap, id, [issued |-> 1])
          /\ cIssued' = cIssued + 1
          /\ UNCHANGED <<lastUpdated, now, granted, serviced>>
     ELSE /\ StampOK
          /\ issuedWriteLock[id] = 1
          /\ lastUpdated[id] # NoTime
          /\ LET connCPrevious == clientMap[id].issued
                 decay == After(lastUpdated[id], lastUpdateTime)
             IN \E oc \in calculateCreditsToOvercommit(cTotal, cIssued, numClients) :
                  LET cNew == IF decay THEN autoDecrement(connCPrevious)
                              ELSE calculateCreditsToIssue(demand, connCPrevious, oc,
                                                           cTotal, cIssued, cTotal, cIssued)
                  IN /\ clientMap' = [clientMap EXCEPT ![id].issued = cNew]
                     /\ cIssued' = cIssued + (cNew - connCPrevious)
                     /\ last' = [LastNone EXCEPT
                                   !.op = "issue", !.id = id,
                                   !.demand = IF decay THEN 0 ELSE demand,
                                   !.cPrev = connCPrevious, !.cNew = cNew,
                                   !.branch = IF decay THEN "decay"
                                              ELSE IF cIssued < cTotal THEN "higher"
                                              ELSE "lower",
                                   !.cTotal0 = cTotal, !.cIssued0 = cIssued,
                                   !.oc = IF decay THEN 0 ELSE oc,
                                   !.first = (id \notin serviced)]
          /\ lastUpdated' = [lastUpdated EXCEPT ![id] = now + 1]
          /\ now' = now + 1
          /\ granted' = granted \cup {id}
          /\ serviced' = serviced \cup {id}
  /\ UNCHANGED <<issuedWriteLock, numClients, cTotal, lastUpdateTime, rttLock,
                 queueingDelay, prevHist, currHist, cfgVars, schedHist, commits,
                 prevCommitTime, workerVars, clientVars>>

\* updateCreditsToIssue(clientID, demand)
updateCreditsToIssue(id, demand) ==
  /\ IF id \notin DOMAIN clientMap
     THEN /\ last' = [LastNone EXCEPT !.op = "issue", !.id = id,
                                      !.branch = "notfound", !.cNew = 0]
          /\ UNCHANGED <<clientMap, lastUpdated, cIssued, now, granted, serviced>>
     ELSE /\ StampOK
          /\ issuedWriteLock[id] = 1
          /\ lastUpdated[id] # NoTime
          /\ LET connCPrevious == clientMap[id].issued
                 decay == After(lastUpdated[id], lastUpdateTime)
             IN \E oc \in calculateCreditsToOvercommit(cTotal, cIssued, numClients) :
                  LET cNew == IF decay THEN autoDecrement(connCPrevious)
                              ELSE calculateCreditsToIssue(demand, connCPrevious, oc,
                                                           cTotal, cIssued, cTotal, cIssued)
                  IN /\ clientMap' = [clientMap EXCEPT ![id].issued = cNew]
                     /\ cIssued' = cIssued + (cNew - connCPrevious)
                     /\ last' = [LastNone EXCEPT
                                   !.op = "issue", !.id = id,
                                   !.demand = IF decay THEN 0 ELSE demand,
                                   !.cPrev = connCPrevious, !.cNew = cNew,
                                   !.branch = IF decay THEN "decay"
                                              ELSE IF cIssued < cTotal THEN "higher"
                                              ELSE "lower",
                                   !.cTotal0 = cTotal, !.cIssued0 = cIssued,
                                   !.oc = IF decay THEN 0 ELSE oc,
                                   !.first = (id \notin serviced)]
          /\ lastUpdated' = [lastUpdated EXCEPT ![id] = now + 1]
          /\ now' = now + 1
          /\ granted' = granted \cup {id}
          /\ serviced' = serviced \cup {id}
  /\ UNCHANGED <<issuedWriteLock, numClients, cTotal, lastUpdateTime, rttLock,
                 queueingDelay, prevHist, currHist, cfgVars, schedHist, commits,
                 prevCommitTime, workerVars, clientVars>>

\* rttUpdate(): mid is the runtime histogram at the second getDelay() call
rttUpdate(mid) ==
  /\ rttLock = 1
  /\ IF now - lastUpdateTime > RTT_MICROSECOND
     THEN /\ StampOK
          /\ mid \in HistsFrom(schedHist)
          /\ LET s1 == IF loadShedding THEN getDelay(prevHist, schedHist)
                       ELSE [delay |-> queueingDelay, prev |-> prevHist]
                 s2 == getDelay(s1.prev, mid)
                 total == totalIssuedOf(clientMap)
             IN /\ queueingDelay' = s1.delay
                /\ lastUpdateTime' = now + 1
                /\ cIssued' = total
                /\ cTotal' = getUpdatedTotalCredits(s2.delay, cTotal, numClients)
                /\ prevHist' = s2.prev
                /\ currHist' = s2.prev
                /\ last' = [LastNone EXCEPT !.op = "rtt", !.committed = TRUE,
                                            !.cTotal0 = cTotal, !.cIssued0 = cIssued,
                                            !.delay = s2.delay]
          /\ schedHist' = mid
          /\ now' = now + 1
          /\ commits' = commits + 1
          /\ prevCommitTime' = lastUpdateTime
          /\ serviced' = {}
     ELSE /\ mid = schedHist
          /\ last' = [LastNone EXCEPT !.op = "rtt", !.committed = FALSE,
                                      !.cTotal0 = cTotal, !.cIssued0 = cIssued]
          /\ UNCHANGED <<queueingDelay, lastUpdateTime, cIssued, cTotal, prevHist,
                         currHist, schedHist, now, commits, prevCommitTime, serviced>>
  /\ UNCHANGED <<clientMap, issuedWriteLock, lastUpdated, numClients, rttLock,
                 cfgVars, granted, workerVars, clientVars>>

\* --------------------------------------------------- idle workers, Admitter
NumWorkers == 2
NumRequests == 3
Workers == 1..NumWorkers
Requests == 1..NumRequests

LocNone ==
  [id |-> NoClient, demand |-> 0, cPrev |-> 0, cNew |-> 0, connTime |-> NoTime,
   oc |-> 0, branch |-> "none", total |-> 0, todo |-> {}, md |-> "ok",
   seen |-> NoTime]

InitWorkers ==
  /\ pc = [w \in Workers |-> "idle"]
  /\ loc = [w \in Workers |-> LocNone]
  /\ calls = 0

\* a call's locals: timeStart, the demand it attaches to the request and
\* header["credits"] of the response (empty when the key is absent)
RqNone == [timeStart |-> 0, demand |-> 0, header |-> <<>>]

\* the ghost hatched where it is not recorded (0 is no call)
Unwatched == {0}

\* InitBreakwater, client side: one token in the gate, one credit
InitAdmitter(expirations) ==
  /\ useClientTimeExpiration \in expirations
  /\ pendingOutgoing = 0
  /\ outgoingCredits = 1
  /\ noCreditBlocker = 1
  /\ timer = "armed"
  /\ rpc = [r \in Requests |-> "idle"]
  /\ rq = [r \in Requests |-> RqNone]
  /\ crowd = 0
  /\ hatched \in {Unwatched, {}}

\* ============================== SpecConc: the server's workers, step by step
\* Each worker serves one request at a time (UnaryInterceptor) and then runs
\* the rttUpdate goroutine the interceptor started.  A step is one operation
\* on a channel, on clientMap or on an unguarded field.  The scheduler's
\* latency counts are seen only by getDelay(), so they advance where it reads.
Goto(w, p) == pc' = [pc EXCEPT ![w] = p]

\* what a request's context can carry: the three keys with parsable values
\* ("ok"), no metadata at all ("none"), the three keys with a value that
\* ParseInt or uuid.Parse refuses ("unparsable"), metadata that lacks one of
\* the keys ("nokey")
Metadata == {"ok", "none", "unparsable", "nokey"}

\* UnaryInterceptor: FromIncomingContext, then md["demand"][0], md["id"][0]
\* and md["reqid"][0] are indexed and parsed.  Indexing the empty slice of a
\* missing key panics; nothing in the interceptor recovers, and an unrecovered
\* panic in one goroutine ends the process, so every worker stops with it.
UnaryInterceptor_begin(w, md, id, demand) ==
  /\ pc[w] = "idle"
  /\ calls < MaxCalls
  /\ calls' = calls + 1
  /\ IF md = "ok"
     THEN /\ Goto(w, "register")
          /\ loc' = [loc EXCEPT ![w] = [LocNone EXCEPT !.id = id, !.demand = demand]]
     ELSE /\ pc' = IF md = "nokey" THEN [v \in Workers |-> "panic"]
                   ELSE [pc EXCEPT ![w] = "rejected"]
          /\ loc' = [loc EXCEPT ![w] = [LocNone EXCEPT !.md = md]]
  /\ UNCHANGED <<ctlVars, cfgVars, envVars, ghostVars, clientVars>>

\* UnaryInterceptor: return nil, errMissingMetadata
UnaryInterceptor_reject(w) ==
  /\ pc[w] = "rejected"
  /\ Goto(w, "idle")
  /\ loc' = [loc EXCEPT ![w] = LocNone]
  /\ UNCHANGED <<ctlVars, cfgVars, envVars, ghostVars, calls, clientVars>>

\* faulty variant: the loaded flag ignored, a known id counted again
RegisterClient_LoadOrStoreCounted(w) ==
  /\ pc[w] = "register"
  /\ LET id == loc[w].id
     IN IF id \in DOMAIN clientMap
        THEN /\ Goto(w, "count")
             /\ UNCHANGED <<clientMap, issuedWriteLock, lastUpdated, now>>
        ELSE /\ clientMap' = MapPut(clientMap, id, [issued |-> 0])
             /\ issuedWriteLock' = [issuedWriteLock EXCEPT ![id] = 1]
             /\ lastUpdated' = [lastUpdated EXCEPT ![id] = (now + 1) - OneSecond]
             /\ now' = now + 1
             /\ Goto(w, "count")
  /\ UNCHANGED <<numClients, cIssued, cTotal, lastUpdateTime, rttLock, queueingDelay,
                 prevHist, currHist, cfgVars, schedHist, ghostVars, loc, calls,
                 clientVars>>

\* faulty variant: Store in place of LoadOrStore, the entry replaced
RegisterClient_LoadOrStoreReplace(w) ==
  /\ pc[w] = "register"
  /\ LET id == loc[w].id
     IN IF id \in DOMAIN clientMap
        THEN /\ clientMap' = [clientMap EXCEPT ![id] = [issued |-> 0]]
             /\ issuedWriteLock' = [issuedWriteLock EXCEPT ![id] = 1]
             /\ lastUpdated' = [lastUpdated EXCEPT ![id] = (now + 1) - OneSecond]
             /\ now' = now + 1
             /\ Goto(w, "issue")
        ELSE /\ clientMap' = MapPut(clientMap, id, [issued |-> 0])
             /\ issuedWriteLock' = [issuedWriteLock EXCEPT ![id] = 1]
             /\ lastUpdated' = [lastUpdated EXCEPT ![id] = (now + 1) - OneSecond]
             /\ now' = now + 1
             /\ Goto(w, "count")
  /\ UNCHANGED <<numClients, cIssued, cTotal, lastUpdateTime, rttLock, queueingDelay,
                 prevHist, currHist, cfgVars, schedHist, ghostVars, loc, calls,
                 clientVars>>

\* RegisterClient: the Connection is built and clientMap.LoadOrStore runs
RegisterClient_LoadOrStore(w) ==
  /\ pc[w] = "register"
  /\ LET id == loc[w].id
     IN IF id \in DOMAIN clientMap
        THEN /\ Goto(w, "issue")
             /\ UNCHANGED <<clientMap, issuedWriteLock, lastUpdated, now>>
        ELSE /\ clientMap' = MapPut(clientMap, id, [issued |-> 0])
             /\ issuedWriteLock' = [issuedWriteLock EXCEPT ![id] = 1]
             /\ lastUpdated' = [lastUpdated EXCEPT ![id] = (now + 1) - OneSecond]
             /\ now' = now + 1
             /\ Goto(w, "count")
  /\ UNCHANGED <<numClients, cIssued, cTotal, lastUpdateTime, rttLock, queueingDelay,
                 prevHist, currHist, cfgVars, schedHist, ghostVars, loc, calls,
                 clientVars>>

\* RegisterClient: numClients taken from its channel and put back plus one
RegisterClient_numClients(w) ==
  /\ pc[w] = "count"
  /\ numClients' = numClients + 1
  /\ Goto(w, "issue")
  /\ UNCHANGED <<clientMap, issuedWriteLock, lastUpdated, cIssued, cTotal,
                 lastUpdateTime, rttLock, queueingDelay, prevHist, currHist, cfgVars,
                 envVars, ghostVars, loc, calls, clientVars>>

\* updateCreditsToIssue: issuedWriteLock and lastUpdated taken, entry reloaded
updateCreditsToIssue_lock(w) ==
  /\ pc[w] = "issue"
  /\ LET id == loc[w].id
     IN /\ id \in DOMAIN clientMap
        /\ issuedWriteLock[id] = 1
        /\ lastUpdated[id] # NoTime
        /\ issuedWriteLock' = [issuedWriteLock EXCEPT ![id] = 0]
        /\ lastUpdated' = [lastUpdated EXCEPT ![id] = NoTime]
        /\ loc' = [loc EXCEPT ![w].cPrev = clientMap[id].issued,
                              ![w].connTime = lastUpdated[id]]
  /\ Goto(w, "branch")
  /\ UNCHANGED <<clientMap, numClients, cIssued, cTotal, lastUpdateTime, rttLock,
                 queueingDelay, prevHist, currHist, cfgVars, envVars, ghostVars,
                 calls, clientVars>>

\* updateCreditsToIssue: connTimeOfLastUpdate.After(b.lastUpdateTime), an
\* unguarded read of lastUpdateTime; seen is the value read, kept while the
\* post-RTT grant is computed
updateCreditsToIssue_branch(w) ==
  /\ pc[w] = "branch"
  /\ IF After(loc[w].connTime, lastUpdateTime)
     THEN /\ loc' = [loc EXCEPT ![w].cNew = autoDecrement(loc[w].cPrev),
                                ![w].branch = "decay"]
          /\ Goto(w, "store")
     ELSE /\ Goto(w, "overcommit")
          /\ loc' = [loc EXCEPT ![w].branch = "postrtt",
                                ![w].seen = lastUpdateTime]
  /\ UNCHANGED <<ctlVars, cfgVars, envVars, ghostVars, calls, clientVars>>

\* calculateCreditsToOvercommit: cIssued, numClients and cTotal read
calculateCreditsToOvercommit_read(w) ==
  /\ pc[w] = "overcommit"
  /\ \E oc \in calculateCreditsToOvercommit(cTotal, cIssued, numClients) :
       loc' = [loc EXCEPT ![w].oc = oc]
  /\ Goto(w, "calc")
  /\ UNCHANGED <<ctlVars, cfgVars, envVars, ghostVars, calls, clientVars>>

\* calculateCreditsToIssue: cIssued and cTotal read, the grant computed
calculateCreditsToIssue_read(w) ==
  /\ pc[w] = "calc"
  /\ loc' = [loc EXCEPT ![w].cNew =
               calculateCreditsToIssue(loc[w].demand, loc[w].cPrev, loc[w].oc,
                                       cTotal, cIssued, cTotal, cIssued),
                         ![w].seen = NoTime]
  /\ Goto(w, "store")
  /\ UNCHANGED <<ctlVars, cfgVars, envVars, ghostVars, calls, clientVars>>

\* updateCreditsToIssue: c.issued = cNew; clientMap.Store
updateCreditsToIssue_Store(w) ==
  /\ pc[w] = "store"
  /\ clientMap' = [clientMap EXCEPT ![loc[w].id].issued = loc[w].cNew]
  /\ granted' = granted \cup {loc[w].id}
  /\ Goto(w, "add")
  /\ UNCHANGED <<issuedWriteLock, lastUpdated, numClients, cIssued, cTotal,
                 lastUpdateTime, rttLock, queueingDelay, prevHist, currHist, cfgVars,
                 envVars, last, commits, prevCommitTime, serviced, loc, calls,
                 clientVars>>

\* updateCreditsToIssue: cIssued taken and put back plus cNew - connCPrevious
updateCreditsToIssue_cIssued(w) ==
  /\ pc[w] = "add"
  /\ cIssued' = cIssued + (loc[w].cNew - loc[w].cPrev)
  /\ Goto(w, "unlock")
  /\ UNCHANGED <<clientMap, issuedWriteLock, lastUpdated, numClients, cTotal,
                 lastUpdateTime, rttLock, queueingDelay, prevHist, currHist, cfgVars,
                 envVars, ghostVars, loc, calls, clientVars>>

\* updateCreditsToIssue: issuedWriteLock released, lastUpdated <- time.Now()
updateCreditsToIssue_unlock(w) ==
  /\ pc[w] = "unlock"
  /\ issuedWriteLock' = [issuedWriteLock EXCEPT ![loc[w].id] = 1]
  /\ lastUpdated' = [lastUpdated EXCEPT ![loc[w].id] = now + 1]
  /\ now' = now + 1
  /\ Goto(w, "handler")
  /\ UNCHANGED <<clientMap, numClients, cIssued, cTotal, lastUpdateTime, rttLock,
                 queueingDelay, prevHist, currHist, cfgVars, schedHist, ghostVars,
                 loc, calls, clientVars>>

\* UnaryInterceptor: header sent, handler run, AQM check; a shed request
\* returns before "go b.rttUpdate()"
UnaryInterceptor_handler(w) ==
  /\ pc[w] = "handler"
  /\ IF loadShedding /\ ~(queueingDelay < aqmDelay)
     THEN /\ Goto(w, "idle")
          /\ loc' = [loc EXCEPT ![w] = LocNone]
     ELSE /\ Goto(w, "rttcheck")
          /\ UNCHANGED loc
  /\ UNCHANGED <<ctlVars, cfgVars, envVars, ghostVars, calls, clientVars>>

\* faulty variant: the lock is tried whatever time has elapsed
rttUpdate_checkAlways(w) ==
  /\ pc[w] = "rttcheck"
  /\ Goto(w, "rttlock")
  /\ UNCHANGED loc
  /\ UNCHANGED <<ctlVars, cfgVars, envVars, ghostVars, calls, clientVars>>

\* rttUpdate: time.Since(b.lastUpdateTime) compared with RTT_MICROSECOND,
\* before the lock is tried
rttUpdate_check(w) ==
  /\ pc[w] = "rttcheck"
  /\ IF now - lastUpdateTime > RTT_MICROSECOND
     THEN /\ Goto(w, "rttlock")
          /\ UNCHANGED loc
     ELSE /\ Goto(w, "idle")
          /\ loc' = [loc EXCEPT ![w] = LocNone]
  /\ UNCHANGED <<ctlVars, cfgVars, envVars, ghostVars, calls, clientVars>>

\* faulty variant: the token is seen but left in rttLock
isRTTUnlockedPeek(w) ==
  /\ pc[w] = "rttlock"
  /\ IF rttLock = 1
     THEN /\ Goto(w, "rttstamp")
          /\ UNCHANGED loc
     ELSE /\ Goto(w, "idle")
          /\ loc' = [loc EXCEPT ![w] = LocNone]
  /\ UNCHANGED <<ctlVars, cfgVars, envVars, ghostVars, calls, clientVars>>

\* isRTTUnlocked: non-blocking receive on rttLock
isRTTUnlocked(w) ==
  /\ pc[w] = "rttlock"
  /\ IF rttLock = 1
     THEN /\ rttLock' = 0
          /\ Goto(w, "rttstamp")
          /\ UNCHANGED loc
     ELSE /\ Goto(w, "idle")
          /\ loc' = [loc EXCEPT ![w] = LocNone]
          /\ UNCHANGED rttLock
  /\ UNCHANGED <<clientMap, issuedWriteLock, lastUpdated, numClients, cIssued, cTotal,
                 lastUpdateTime, queueingDelay, prevHist, currHist, cfgVars, envVars,
                 ghostVars, calls, clientVars>>

\* rttUpdate: the AQM sample (when loadShedding) and b.lastUpdateTime = time.Now();
\* hist is the runtime histogram readHistogram() returns
rttUpdate_stamp(w, hist) ==
  /\ pc[w] = "rttstamp"
  /\ hist \in (IF loadShedding THEN HistsFrom(schedHist) ELSE {schedHist})
  /\ schedHist' = hist
  /\ LET s1 == IF loadShedding THEN getDelay(prevHist, hist)
               ELSE [delay |-> queueingDelay, prev |-> prevHist]
     IN /\ queueingDelay' = s1.delay
        /\ prevHist' = s1.prev
        /\ currHist' = s1.prev
  /\ lastUpdateTime' = now + 1
  /\ now' = now + 1
  /\ commits' = commits + 1
  /\ prevCommitTime' = lastUpdateTime
  /\ loc' = [loc EXCEPT ![w].total = 0, ![w].todo = DOMAIN clientMap]
  /\ Goto(w, "rttrange")
  /\ UNCHANGED <<clientMap, issuedWriteLock, lastUpdated, numClients, cIssued, cTotal,
                 rttLock, cfgVars, last, granted, serviced, calls, clientVars>>

\* rttUpdate: clientMap.Range visits one entry
rttUpdate_Range(w) ==
  /\ pc[w] = "rttrange"
  /\ loc[w].todo # {}
  /\ \E id \in loc[w].todo :
       loc' = [loc EXCEPT ![w].total = @ + clientMap[id].issued,
                          ![w].todo = @ \ {id}]
  /\ UNCHANGED <<ctlVars, cfgVars, envVars, ghostVars, pc, calls, clientVars>>

\* rttUpdate: <-b.cIssued; b.cIssued <- totalIssued
rttUpdate_cIssued(w) ==
  /\ pc[w] = "rttrange"
  /\ loc[w].todo = {}
  /\ cIssued' = loc[w].total
  /\ Goto(w, "rtttotal")
  /\ UNCHANGED <<clientMap, issuedWriteLock, lastUpdated, numClients, cTotal,
                 lastUpdateTime, rttLock, queueingDelay, prevHist, currHist, cfgVars,
                 envVars, ghostVars, loc, calls, clientVars>>

\* rttUpdate: b.cTotal = b.getUpdatedTotalCredits(), which samples getDelay()
\* on the runtime histogram hist
rttUpdate_cTotal(w, hist) ==
  /\ pc[w] = "rtttotal"
  /\ hist \in HistsFrom(schedHist)
  /\ schedHist' = hist
  /\ LET s2 == getDelay(prevHist, hist)
     IN /\ cTotal' = getUpdatedTotalCredits(s2.delay, cTotal, numClients)
        /\ prevHist' = s2.prev
        /\ currHist' = s2.prev
  /\ Goto(w, "rttrelease")
  /\ UNCHANGED <<clientMap, issuedWriteLock, lastUpdated, numClients, cIssued,
                 lastUpdateTime, rttLock, queueingDelay, cfgVars, now, ghostVars,
                 loc, calls, clientVars>>

\* rttUpdate: b.rttLock <- 1
rttUpdate_release(w) ==
  /\ pc[w] = "rttrelease"
  /\ rttLock' = 1
  /\ Goto(w, "idle")
  /\ loc' = [loc EXCEPT ![w] = LocNone]
  /\ UNCHANGED <<clientMap, issuedWriteLock, lastUpdated, numClients, cIssued, cTotal,
                 lastUpdateTime, queueingDelay, prevHist, currHist, cfgVars, envVars,
                 ghostVars, calls, clientVars>>

\* ------------------------------------------------ Spec: whole operations
InitialCreditsSet == {1, 4}
AFactors == {<<3, 4>>}

Init ==
  /\ InitController(InitialCreditsSet, AFactors, BOOLEAN)
  /\ InitWorkers
  /\ InitAdmitter({TRUE})
  /\ hatched = Unwatched

\* client ids are interchangeable: "c1" names the first id the server sees
FirstSeen(id) == id = "c1" \/ "c1" \in DOMAIN clientMap

Next ==
  \/ \E step \in TickSteps : Tick(step)
  \/ \E i \in 1..NB : SchedLatency(i)
  \/ \E id \in Clients, demand \in Demands : FirstSeen(id) /\ RegisterClient(id, demand)
  \/ \E id \in Clients, demand \in Demands : updateCreditsToIssue(id, demand)
  \/ \E mid \in HistsFrom(schedHist) : rttUpdate(mid)

Spec == Init /\ [][Next]_vars

\* ------------------------------------------- SpecConc: interleaved workers
ConcDemands == {0, 3}

\* idle workers are interchangeable, and so are ids the server has not seen:
\* the lowest idle worker takes the request, "c1" names the first id called
FirstIdle(w) == \A v \in Workers : v < w => pc[v] # "idle"

FirstCalled(id) ==
  id = "c1" \/ "c1" \in DOMAIN clientMap \/ \E v \in Workers : loc[v].id = "c1"

\* elapsed time is measured by rttUpdate (time.Since, and time.Now() for
\* lastUpdateTime) and by RegisterClient, which backdates lastUpdated by one
\* second; the other stamps are compared by their order.  The idle second is
\* the one before the server's first client registers.
ClockRead(step) ==
  IF step = TickStep THEN \E w \in Workers : pc[w] \in {"rttcheck", "rttstamp"}
  ELSE /\ DOMAIN clientMap = {}
       /\ \E w \in Workers : pc[w] = "register"

\* the server process has not been ended by a panic
Alive == \A w \in Workers : pc[w] # "panic"

\* a request whose metadata is refused carries no id or demand that is read
Parsed(md, id, demand) == md = "ok" \/ (id = "c1" /\ demand = 0)

NextConc ==
  \/ \E step \in TickSteps : ClockRead(step) /\ Tick(step)
  \/ \E w \in Workers :
       /\ pc[w] = "idle" /\ calls < MaxCalls /\ FirstIdle(w)
       /\ \E md \in Metadata, id \in Clients, demand \in ConcDemands :
            /\ FirstCalled(id) /\ Parsed(md, id, demand)
            /\ UnaryInterceptor_begin(w, md, id, demand)
  \/ \E w \in Workers : UnaryInterceptor_reject(w)
  \/ \E w \in Workers : RegisterClient_LoadOrStore(w)
  \/ \E w \in Workers : RegisterClient_numClients(w)
  \/ \E w \in Workers : updateCreditsToIssue_lock(w)
  \/ \E w \in Workers : updateCreditsToIssue_branch(w)
  \/ \E w \in Workers : calculateCreditsToOvercommit_read(w)
  \/ \E w \in Workers : calculateCreditsToIssue_read(w)
  \/ \E w \in Workers : updateCreditsToIssue_Store(w)
  \/ \E w \in Workers : updateCreditsToIssue_cIssued(w)
  \/ \E w \in Workers : updateCreditsToIssue_unlock(w)
  \/ \E w \in Workers : UnaryInterceptor_handler(w)
  \/ \E w \in Workers : rttUpdate_check(w)
  \/ \E w \in Workers : isRTTUnlocked(w)
  \/ \E w \in Workers :
       /\ pc[w] = "rttstamp"
       /\ \E hist \in HistsFrom(schedHist) : rttUpdate_stamp(w, hist)
  \/ \E w \in Workers : rttUpdate_Range(w)
  \/ \E w \in Workers : rttUpdate_cIssued(w)
  \/ \E w \in Workers :
       /\ pc[w] = "rtttotal"
       /\ \E hist \in HistsFrom(schedHist) : rttUpdate_cTotal(w, hist)
  \/ \E w \in Workers : rttUpdate_release(w)

\* the package fixes loadShedding to true (breakwater.go, var loadShedding)
InitConc ==
  /\ InitController(InitialCreditsSet, AFactors, {TRUE})
  /\ InitWorkers
  /\ InitAdmitter({TRUE})
  /\ hatched = Unwatched

SpecConc == InitConc /\ [][NextConc]_vars

\* ================= SpecShed: the workers after the first control interval
\* The delay the AQM check reads is the one an earlier rttUpdate stored, and
\* the adapter's first sample is 0 (no previous histogram), so a request can
\* be shed only after the second commit.  FirstServed is the server once it
\* has served one request of "c1" (demand 0, one initial credit) that arrived
\* a second after construction and committed the first interval with no
\* scheduler latency seen; SpecConc reaches it.
FirstServed ==
  /\ clientMap = [c \in {"c1"} |-> [issued |-> 1]]
  /\ issuedWriteLock = [c \in Clients |-> IF c = "c1" THEN 1 ELSE 0]
  /\ lastUpdated = [c \in Clients |-> IF c = "c1" THEN OneSecond + 2 ELSE NoTime]
  /\ numClients = 1
  /\ cIssued = 1
  /\ cTotal = 2
  /\ lastUpdateTime = OneSecond + 3
  /\ rttLock = 1
  /\ queueingDelay = 0
  /\ prevHist = ZeroHist
  /\ currHist = ZeroHist
  /\ aFactor = <<3, 4>>
  /\ loadShedding = TRUE
  /\ now = OneSecond + 3
  /\ schedHist = ZeroHist
  /\ last = LastNone
  /\ commits = 1
  /\ prevCommitTime = 0
  /\ granted = {"c1"}
  /\ serviced = {}
  /\ pc = [w \in Workers |-> "idle"]
  /\ loc = [w \in Workers |-> LocNone]

InitShed ==
  /\ FirstServed
  /\ calls = 0
  /\ InitAdmitter({TRUE})
  /\ hatched = Unwatched

\* demands ParseInt accepts beyond those of ConcDemands: a negative one, and
\* one so large that demand + cOvercommit wraps when cOvercommit exceeds 1
WideDemands == {-2, INT_MAX - 1}

NextShed ==
  \/ \E w \in Workers :
       /\ pc[w] = "idle" /\ calls < MaxCalls /\ FirstIdle(w)
       /\ \E id \in Clients, demand \in WideDemands :
            UnaryInterceptor_begin(w, "ok", id, demand)
  \/ NextConc

SpecShed == InitShed /\ [][NextShed]_vars

\* ========== SpecAbsorb: SpecShed with requests that keep arriving, fair
\* While the stored delay is at or above aqmDelay requests arrive without
\* end (they are not counted against MaxCalls).  Instants later than the
\* last RTT update are not told apart by lastUpdated: once the clock is Late
\* the stamp of lastUpdated leaves it where it is, which keeps the state space
\* finite and changes no outcome of After(lastUpdated, lastUpdateTime).
Late == now > lastUpdateTime

\* UnaryInterceptor for one more request of a registered id, valid metadata
UnaryInterceptor_again(w, id, demand) ==
  /\ pc[w] = "idle"
  /\ loadShedding /\ queueingDelay >= aqmDelay
  /\ id \in DOMAIN clientMap
  /\ Goto(w, "register")
  /\ loc' = [loc EXCEPT ![w] = [LocNone EXCEPT !.id = id, !.demand = demand]]
  /\ UNCHANGED <<ctlVars, cfgVars, envVars, ghostVars, calls, clientVars>>

\* updateCreditsToIssue: issuedWriteLock released, lastUpdated <- time.Now(),
\* at a Late instant
updateCreditsToIssue_unlockLate(w) ==
  /\ pc[w] = "unlock"
  /\ Late
  /\ issuedWriteLock' = [issuedWriteLock EXCEPT ![loc[w].id] = 1]
  /\ lastUpdated' = [lastUpdated EXCEPT ![loc[w].id] = now]
  /\ Goto(w, "handler")
  /\ UNCHANGED <<clientMap, numClients, cIssued, cTotal, lastUpdateTime, rttLock,
                 queueingDelay, prevHist, currHist, cfgVars, envVars, ghostVars,
                 loc, calls, clientVars>>

\* the steps of the goroutine that serves worker w's request and then runs
\* rttUpdate
UnaryInterceptor_step(w) ==
  \/ RegisterClient_LoadOrStore(w)
  \/ RegisterClient_numClients(w)
  \/ updateCreditsToIssue_lock(w)
  \/ updateCreditsToIssue_branch(w)
  \/ calculateCreditsToOvercommit_read(w)
  \/ calculateCreditsToIssue_read(w)
  \/ updateCreditsToIssue_Store(w)
  \/ updateCreditsToIssue_cIssued(w)
  \/ ~Late /\ updateCreditsToIssue_unlock(w)
  \/ updateCreditsToIssue_unlockLate(w)
  \/ UnaryInterceptor_handler(w)
  \/ rttUpdate_check(w)
  \/ isRTTUnlocked(w)
  \/ pc[w] = "rttstamp" /\ \E hist \in HistsFrom(schedHist) : rttUpdate_stamp(w, hist)
  \/ rttUpdate_Range(w)
  \/ rttUpdate_cIssued(w)
  \/ pc[w] = "rtttotal" /\ \E hist \in HistsFrom(schedHist) : rttUpdate_cTotal(w, hist)
  \/ rttUpdate_release(w)

\* requests arrive while the server sheds
Arrival ==
  \E w \in Workers :
    /\ pc[w] = "idle" /\ FirstIdle(w)
    /\ \E id \in Clients : UnaryInterceptor_again(w, id, 0)

NextAbsorb ==
  \/ \E step \in TickSteps : ClockRead(step) /\ Tick(step)
  \/ \E w \in Workers :
       /\ pc[w] = "idle" /\ calls < MaxFirstCalls /\ FirstIdle(w)
       /\ \E id \in Clients, demand \in ConcDemands :
            FirstCalled(id) /\ UnaryInterceptor_begin(w, "ok", id, demand)
  \/ Arrival
  \/ \E w \in Workers : UnaryInterceptor_step(w)

\* every started goroutine is scheduled again
FairWorkers == \A w \in Workers : WF_vars(UnaryInterceptor_step(w))

\* and requests keep arriving
FairServer == FairWorkers /\ WF_vars(Arrival)

SpecAbsorb == InitShed /\ [][NextAbsorb]_vars /\ FairServer

\* ============ SpecLock: two requests of demand 0 after FirstServed, fair
\* Both requests can reach rttUpdate in the same interval and try rttLock.
NextLock ==
  \/ \E step \in TickSteps : ClockRead(step) /\ Tick(step)
  \/ \E w \in Workers :
       /\ pc[w] = "idle" /\ calls < MaxCalls /\ FirstIdle(w)
       /\ \E id \in Clients : FirstCalled(id) /\ UnaryInterceptor_begin(w, "ok", id, 0)
  \/ \E w \in Workers : UnaryInterceptor_step(w)

SpecLock == InitShed /\ [][NextLock]_vars /\ FairWorkers

\* ================== SpecRace: the workers once both clients hold credits
\* BothServed is the server after the first requests of "c1" and "c2" (one
\* initial credit, both arriving a second after construction) and the commit
\* that followed them: each client holds one credit, one credit of headroom
\* is left and both clients were last updated before the commit.  SpecConc
\* reaches it.
BothServed ==
  /\ clientMap = [c \in Clients |-> [issued |-> 1]]
  /\ issuedWriteLock = [c \in Clients |-> 1]
  /\ lastUpdated = [c \in Clients |-> IF c = "c1" THEN OneSecond + 3 ELSE OneSecond + 4]
  /\ numClients = 2
  /\ cIssued = 2
  /\ cTotal = 3
  /\ lastUpdateTime = OneSecond + 5
  /\ rttLock = 1
  /\ queueingDelay = 0
  /\ prevHist = ZeroHist
  /\ currHist = ZeroHist
  /\ aFactor = <<3, 4>>
  /\ loadShedding = TRUE
  /\ now = OneSecond + 5
  /\ schedHist = ZeroHist
  /\ last = LastNone
  /\ commits = 1
  /\ prevCommitTime = 0
  /\ granted = Clients
  /\ serviced = {}
  /\ pc = [w \in Workers |-> "idle"]
  /\ loc = [w \in Workers |-> LocNone]

InitRace ==
  /\ BothServed
  /\ calls = 0
  /\ InitAdmitter({TRUE})
  /\ hatched = Unwatched

\* both ids are registered: RegisterClient loads the stored connection
NextRace ==
  \/ \E step \in TickSteps : ClockRead(step) /\ Tick(step)
  \/ \E w \in Workers :
       /\ pc[w] = "idle" /\ calls < MaxCalls /\ FirstIdle(w)
       /\ \E id \in Clients, demand \in ConcDemands :
            UnaryInterceptor_begin(w, "ok", id, demand)
  \/ \E w \in Workers : RegisterClient_LoadOrStore(w)
  \/ \E w \in Workers : updateCreditsToIssue_lock(w)
  \/ \E w \in Workers : updateCreditsToIssue_branch(w)
  \/ \E w \in Workers : calculateCreditsToOvercommit_read(w)
  \/ \E w \in Workers : calculateCreditsToIssue_read(w)
  \/ \E w \in Workers : updateCreditsToIssue_Store(w)
  \/ \E w \in Workers : updateCreditsToIssue_cIssued(w)
  \/ \E w \in Workers : updateCreditsToIssue_unlock(w)
  \/ \E w \in Workers : UnaryInterceptor_handler(w)
  \/ \E w \in Workers : rttUpdate_check(w)
  \/ \E w \in Workers : isRTTUnlocked(w)
  \/ \E w \in Workers :
       /\ pc[w] = "rttstamp"
       /\ \E hist \in HistsFrom(schedHist) : rttUpdate_stamp(w, hist)
  \/ \E w \in Workers : rttUpdate_Range(w)
  \/ \E w \in Workers : rttUpdate_cIssued(w)
  \/ \E w \in Workers :
       /\ pc[w] = "rtttotal"
       /\ \E hist \in HistsFrom(schedHist) : rttUpdate_cTotal(w, hist)
  \/ \E w \in Workers : rttUpdate_release(w)

SpecRace == InitRace /\ [][NextRace]_vars

\* ==================================== SpecClient: the Admitter, step by step
\* Each outbound call r runs UnaryInterceptorClient once; its locals are
\* forgotten when it returns.
serverVars == <<ctlVars, schedHist, ghostVars, workerVars>>

HeaderCredits == {-1, 2}

GotoC(r, p) == rpc' = [rpc EXCEPT ![r] = p]

\* unblockNoCreditBlock: non-blocking send on noCreditBlocker
unblockNoCreditBlock == noCreditBlocker' = 1

\* faulty variant: the drop only "if there are > 50 elements"
queueRequestOneMore == pendingOutgoing <= MAX_Q_LENGTH

\* queueRequest: non-blocking send on pendingOutgoing
queueRequest == pendingOutgoing < MAX_Q_LENGTH

\* dequeueRequest: non-blocking receive on pendingOutgoing
dequeueRequest == pendingOutgoing' = IF pendingOutgoing > 0 THEN pendingOutgoing - 1 ELSE 0

\* UnaryInterceptorClient: timeStart taken, the request queued or refused
UnaryInterceptorClient_queue(r) ==
  /\ rpc[r] = "idle"
  /\ IF queueRequest
     THEN /\ pendingOutgoing' = pendingOutgoing + 1
          /\ rq' = [rq EXCEPT ![r] = [RqNone EXCEPT !.timeStart = now]]
          /\ GotoC(r, "gate")
     ELSE /\ GotoC(r, "refused")
          /\ UNCHANGED <<pendingOutgoing, rq>>
  /\ UNCHANGED <<outgoingCredits, noCreditBlocker, timer, serverVars, cfgVars, now, crowd, hatched>>

\* gate loop: <-b.noCreditBlocker
UnaryInterceptorClient_gate(r) ==
  /\ rpc[r] = "gate"
  /\ noCreditBlocker = 1
  /\ noCreditBlocker' = 0
  /\ GotoC(r, "woken")
  /\ UNCHANGED <<pendingOutgoing, outgoingCredits, timer, rq, serverVars, cfgVars, now, crowd, hatched>>

\* gate loop: the expiration check; an expired request re-posts the gate
UnaryInterceptorClient_expiration(r) ==
  /\ rpc[r] = "woken"
  /\ IF useClientTimeExpiration /\ (now - rq[r].timeStart) > aqmDelay
     THEN /\ unblockNoCreditBlock
          /\ GotoC(r, "expiring")
     ELSE /\ GotoC(r, "credit")
          /\ UNCHANGED noCreditBlocker
  /\ UNCHANGED <<pendingOutgoing, outgoingCredits, timer, rq, serverVars, cfgVars, now, crowd, hatched>>

\* faulty variant: the expired request returns without dequeueRequest
UnaryInterceptorClient_expiredKept(r) ==
  /\ rpc[r] = "expiring"
  /\ GotoC(r, "expired")
  /\ rq' = [rq EXCEPT ![r] = RqNone]
  /\ UNCHANGED <<pendingOutgoing, outgoingCredits, noCreditBlocker, timer,
                 serverVars, cfgVars, now, crowd, hatched>>

\* gate loop: the expired request's dequeueRequest, then the error return
UnaryInterceptorClient_expired(r) ==
  /\ rpc[r] = "expiring"
  /\ dequeueRequest
  /\ GotoC(r, "expired")
  /\ rq' = [rq EXCEPT ![r] = RqNone]
  /\ UNCHANGED <<outgoingCredits, noCreditBlocker, timer, serverVars, cfgVars, now, crowd, hatched>>

\* faulty variant: the balance test >= 0 in place of > 0
UnaryInterceptorClient_creditOffByOne(r) ==
  /\ rpc[r] = "credit"
  /\ IF outgoingCredits >= 0
     THEN /\ outgoingCredits' = outgoingCredits - 1
          /\ GotoC(r, IF outgoingCredits - 1 > 0 THEN "unblock" ELSE "demand")
     ELSE /\ outgoingCredits' = 0
          /\ GotoC(r, "gate")
  /\ UNCHANGED <<pendingOutgoing, noCreditBlocker, timer, rq, serverVars, cfgVars, now, crowd, hatched>>

\* gate loop: creditBalance := <-b.outgoingCredits, decremented and put back
\* when > 0, else 0 put back and the loop repeated
UnaryInterceptorClient_credit(r) ==
  /\ rpc[r] = "credit"
  /\ IF outgoingCredits > 0
     THEN /\ outgoingCredits' = outgoingCredits - 1
          /\ GotoC(r, IF outgoingCredits - 1 > 0 THEN "unblock" ELSE "demand")
     ELSE /\ outgoingCredits' = 0
          /\ GotoC(r, "gate")
  /\ UNCHANGED <<pendingOutgoing, noCreditBlocker, timer, rq, serverVars, cfgVars, now, crowd, hatched>>

\* faulty variant: credits remain and the gate is not posted
UnaryInterceptorClient_unblockSkipped(r) ==
  /\ rpc[r] = "unblock"
  /\ GotoC(r, "demand")
  /\ UNCHANGED <<pendingOutgoing, outgoingCredits, noCreditBlocker, timer, rq,
                 serverVars, cfgVars, now, crowd, hatched>>

\* gate loop: credits remain, so the gate is posted for the next request
UnaryInterceptorClient_unblock(r) ==
  /\ rpc[r] = "unblock"
  /\ unblockNoCreditBlock
  /\ GotoC(r, "demand")
  /\ UNCHANGED <<pendingOutgoing, outgoingCredits, timer, rq, serverVars, cfgVars, now, crowd, hatched>>

\* getDemand: len(b.pendingOutgoing), read before the request is dequeued
getDemand(r) ==
  /\ rpc[r] = "demand"
  /\ rq' = [rq EXCEPT ![r].demand = pendingOutgoing]
  /\ GotoC(r, "dequeue")
  /\ UNCHANGED <<pendingOutgoing, outgoingCredits, noCreditBlocker, timer, serverVars,
                 cfgVars, now, crowd, hatched>>

\* dequeueRequest before the invoker is called
UnaryInterceptorClient_dequeue(r) ==
  /\ rpc[r] = "dequeue"
  /\ dequeueRequest
  /\ GotoC(r, "inflight")
  /\ UNCHANGED <<outgoingCredits, noCreditBlocker, timer, rq, serverVars, cfgVars, now, crowd, hatched>>

\* the invoker returns an error: the call returns it at once
UnaryInterceptorClient_error(r) ==
  /\ rpc[r] = "inflight"
  /\ GotoC(r, "failed")
  /\ rq' = [rq EXCEPT ![r] = RqNone]
  /\ UNCHANGED <<pendingOutgoing, outgoingCredits, noCreditBlocker, timer,
                 serverVars, cfgVars, now, crowd, hatched>>

\* the invoker returns a response with a credits header
UnaryInterceptorClient_credits(r, cXNew) ==
  /\ rpc[r] = "inflight"
  /\ outgoingCredits' = max(cXNew, 1)
  /\ rq' = [rq EXCEPT ![r].header = <<cXNew>>]
  /\ GotoC(r, "responded")
  /\ UNCHANGED <<pendingOutgoing, noCreditBlocker, timer, serverVars, cfgVars, now, crowd, hatched>>

\* faulty variant: without a header the balance is left as it is
UnaryInterceptorClient_nocreditsKept(r) ==
  /\ rpc[r] = "inflight"
  /\ GotoC(r, "responded")
  /\ UNCHANGED <<pendingOutgoing, outgoingCredits, noCreditBlocker, timer, rq,
                 serverVars, cfgVars, now, crowd, hatched>>

\* the invoker returns a response without a credits header
UnaryInterceptorClient_nocredits(r) ==
  /\ rpc[r] = "inflight"
  /\ outgoingCredits' = max(outgoingCredits, 1)
  /\ GotoC(r, "responded")
  /\ UNCHANGED <<pendingOutgoing, noCreditBlocker, timer, rq, serverVars, cfgVars, now, crowd, hatched>>

\* after either response: unblockNoCreditBlock, then return
UnaryInterceptorClient_return(r) ==
  /\ rpc[r] = "responded"
  /\ unblockNoCreditBlock
  /\ GotoC(r, "returned")
  /\ rq' = [rq EXCEPT ![r] = RqNone]
  /\ UNCHANGED <<pendingOutgoing, outgoingCredits, timer, serverVars, cfgVars, now, crowd, hatched>>

\* startTimeoutRoutine: the timer expired; <-b.outgoingCredits; b.outgoingCredits <- 99999999
startTimeoutRoutine_credits ==
  /\ timer = "armed"
  /\ now >= TimeoutSeconds * OneSecond
  /\ outgoingCredits' = TimeoutCredits
  /\ timer' = "fired"
  /\ UNCHANGED <<pendingOutgoing, noCreditBlocker, rpc, rq, serverVars, cfgVars, now, crowd, hatched>>

\* startTimeoutRoutine: unblockNoCreditBlock
startTimeoutRoutine_unblock ==
  /\ timer = "fired"
  /\ unblockNoCreditBlock
  /\ timer' = "done"
  /\ hatched' = IF hatched = Unwatched THEN hatched
                ELSE {r \in Requests : rpc[r] = "gate"}
  /\ UNCHANGED <<pendingOutgoing, outgoingCredits, rpc, rq, serverVars, cfgVars, now,
                 crowd>>

InitClient ==
  /\ InitController({1}, {AFactorDefault}, {TRUE})
  /\ InitWorkers
  /\ InitAdmitter(BOOLEAN)
  /\ hatched = Unwatched

\* the clock is read when a call starts (timeStart), at the expiration
\* check, and by the escape-hatch timer
ClientClockRead(step) ==
  IF step = TickStep THEN \E r \in Requests : rpc[r] \in {"idle", "woken"}
  ELSE timer = "armed"

\* calls not yet made are interchangeable: the lowest one is made first
FirstCall(r) == \A q \in Requests : q < r => rpc[q] # "idle"

NextClient ==
  \/ \E step \in {TickStep, TimeoutSeconds * OneSecond} :
       ClientClockRead(step) /\ Tick(step)
  \/ \E r \in Requests : FirstCall(r) /\ UnaryInterceptorClient_queue(r)
  \/ \E r \in Requests : UnaryInterceptorClient_gate(r)
  \/ \E r \in Requests : UnaryInterceptorClient_expiration(r)
  \/ \E r \in Requests : UnaryInterceptorClient_expired(r)
  \/ \E r \in Requests : UnaryInterceptorClient_credit(r)
  \/ \E r \in Requests : UnaryInterceptorClient_unblock(r)
  \/ \E r \in Requests : getDemand(r)
  \/ \E r \in Requests : UnaryInterceptorClient_dequeue(r)
  \/ \E r \in Requests : UnaryInterceptorClient_error(r)
  \/ \E r \in Requests, cXNew \in HeaderCredits : UnaryInterceptorClient_credits(r, cXNew)
  \/ \E r \in Requests : UnaryInterceptorClient_nocredits(r)
  \/ \E r \in Requests : UnaryInterceptorClient_return(r)
  \/ startTimeoutRoutine_credits
  \/ startTimeoutRoutine_unblock

SpecClient == InitClient /\ [][NextClient]_vars

\* ------------------------------------- SpecQueue: the Admitter under a burst
\* MAX_Q_LENGTH is beyond what the calls followed step by step can fill, so
\* a burst of further calls arrives first: each runs queueRequest and then
\* waits at the gate, where the scheduler leaves it.
BurstSize == MAX_Q_LENGTH - 1

UnaryInterceptorClient_burst(k) ==
  /\ crowd = 0
  /\ \A r \in Requests : rpc[r] = "idle"
  /\ pendingOutgoing + k <= MAX_Q_LENGTH
  /\ pendingOutgoing' = pendingOutgoing + k
  /\ crowd' = crowd + k
  /\ UNCHANGED <<outgoingCredits, noCreditBlocker, timer, rpc, rq, serverVars,
                 cfgVars, now, hatched>>

\* the package fixes useClientTimeExpiration to true (breakwater.go)
InitQueue ==
  /\ InitController({1}, {AFactorDefault}, {TRUE})
  /\ InitWorkers
  /\ InitAdmitter({TRUE})
  /\ hatched = Unwatched

NextQueue ==
  \/ UnaryInterceptorClient_burst(BurstSize)
  \/ NextClient

SpecQueue == InitQueue /\ [][NextQueue]_vars

\* ------------------------------------ SpecLive: the Admitter, fairly scheduled
\* A goroutine that can take a step takes it: a call past queueRequest runs on
\* whenever it is not blocked on the gate, the transport returns from every
\* invoker call (with a response or an error), wall-clock time reaches the
\* escape hatch's 25 s and its goroutine runs.  Whether further calls are
\* made is up to the application.
UnaryInterceptorClient_step(r) ==
  \/ UnaryInterceptorClient_gate(r)
  \/ UnaryInterceptorClient_expiration(r)
  \/ UnaryInterceptorClient_expired(r)
  \/ UnaryInterceptorClient_credit(r)
  \/ UnaryInterceptorClient_unblock(r)
  \/ getDemand(r)
  \/ UnaryInterceptorClient_dequeue(r)
  \/ UnaryInterceptorClient_error(r)
  \/ \E cXNew \in HeaderCredits : UnaryInterceptorClient_credits(r, cXNew)
  \/ UnaryInterceptorClient_nocredits(r)
  \/ UnaryInterceptorClient_return(r)

startTimeoutRoutine_step ==
  \/ Tick(TimeoutSeconds * OneSecond)
  \/ startTimeoutRoutine_credits
  \/ startTimeoutRoutine_unblock

FairClient ==
  /\ \A r \in Requests : WF_vars(UnaryInterceptorClient_step(r))
  /\ WF_vars(startTimeoutRoutine_step)

\* the only clock step is the one up to the escape hatch's deadline: a call
\* queued before it is overdue after it
NextLive ==
  \/ startTimeoutRoutine_step
  \/ \E r \in Requests : FirstCall(r) /\ UnaryInterceptorClient_queue(r)
  \/ \E r \in Requests : UnaryInterceptorClient_step(r)

\* as InitQueue, with the ghost hatched recorded
InitLive ==
  /\ InitController({1}, {AFactorDefault}, {TRUE})
  /\ InitWorkers
  /\ InitAdmitter({TRUE})
  /\ hatched = {}

SpecLive == InitLive /\ [][NextLive]_vars /\ FairClient

\* --------------------------- SpecCredit: the Admitter before the escape hatch
\* The application keeps calling: a call that has returned is followed by
\* another one.  No time passes, so nothing expires and the escape-hatch
\* timer stays armed.
UnaryInterceptorClient_next(r) ==
  /\ rpc[r] \in {"returned", "failed"}
  /\ GotoC(r, "idle")
  /\ UNCHANGED <<pendingOutgoing, outgoingCredits, noCreditBlocker, timer, rq,
                 serverVars, cfgVars, now, crowd, hatched>>

NextCredit ==
  \/ \E r \in Requests : FirstCall(r) /\ UnaryInterceptorClient_queue(r)
  \/ \E r \in Requests : UnaryInterceptorClient_gate(r)
  \/ \E r \in Requests : UnaryInterceptorClient_expiration(r)
  \/ \E r \in Requests : UnaryInterceptorClient_credit(r)
  \/ \E r \in Requests : UnaryInterceptorClient_unblock(r)
  \/ \E r \in Requests : getDemand(r)
  \/ \E r \in Requests : UnaryInterceptorClient_dequeue(r)
  \/ \E r \in Requests : UnaryInterceptorClient_error(r)
  \/ \E r \in Requests, cXNew \in HeaderCredits : UnaryInterceptorClient_credits(r, cXNew)
  \/ \E r \in Requests : UnaryInterceptorClient_nocredits(r)
  \/ \E r \in Requests : UnaryInterceptorClient_return(r)
  \/ \E r \in Requests : UnaryInterceptorClient_next(r)

SpecCredit == InitQueue /\ [][NextCredit]_vars

\* =================================================== properties of Spec
\* the claims' own arithmetic, written from their wording
ClaimRound(p, q) ==
  IF 2 * p >= 0 THEN (2 * p + q) \div (2 * q) ELSE -((q - 2 * p) \div (2 * q))

ClaimMax(a, b) == IF a >= b THEN a ELSE b

ClaimMin(a, b) == IF a <= b THEN a ELSE b

\* cOvercommit = max(round((cTotal - cIssued) / numClients), 1)
ClaimOvercommit(cT, cI, n) == ClaimMax(ClaimRound(cT - cI, n), 1)

IssuedFound == last.op = "issue" /\ last.branch # "notfound"

Claim_C6 ==
  (IssuedFound /\ last.first /\ numClients >= 1) =>
    LET oc == ClaimOvercommit(last.cTotal0, last.cIssued0, numClients)
        grant == IF last.cIssued0 < last.cTotal0
                 THEN ClaimMax(ClaimMin(last.demand + oc,
                                        last.cPrev + (last.cTotal0 - last.cIssued0)), 1)
                 ELSE ClaimMax(ClaimMin(last.demand + oc, last.cPrev - 1), 1)
    IN /\ last.cNew = grant
       /\ clientMap[last.id].issued = grant
       /\ cIssued = last.cIssued0 + (last.cNew - last.cPrev)

\* C7 (as stated): an issuance for a client already serviced since the latest
\* RTT commit reduces the client's issued by exactly 1.
Claim_C7 ==
  (IssuedFound /\ ~last.first) =>
    /\ last.cNew = last.cPrev - 1
    /\ clientMap[last.id].issued = last.cPrev - 1

\* C7 (amended): an issuance for a client already serviced since the latest
\* RTT commit sets the client's issued to max(cPrev - 1, 1) whatever the
\* demand: one less when cPrev >= 2, unchanged at 1 when cPrev = 1.
Inv_C7 ==
  (IssuedFound /\ ~last.first) =>
    /\ last.branch = "decay"
    /\ last.cNew = ClaimMax(last.cPrev - 1, 1)
    /\ clientMap[last.id].issued = last.cNew
    /\ cIssued = last.cIssued0 + (last.cNew - last.cPrev)
    /\ (last.cPrev >= 2 => last.cNew = last.cPrev - 1)
    /\ (last.cPrev = 1 => last.cNew = 1)

Witness_C7 ==
  /\ IssuedFound /\ ~last.first
  /\ last.cPrev >= 2
  /\ clientMap[last.id].issued = last.cPrev - 1

\* C8: a post-RTT grant computed while cIssued < cTotal with
\* demand + cOvercommit >= cPrev satisfies cNew >= cPrev and
\* cNew - cPrev <= cTotal - cIssued.
Inv_C8 ==
  (IssuedFound /\ last.branch = "higher" /\ last.demand + last.oc >= last.cPrev) =>
    /\ last.cNew >= last.cPrev
    /\ last.cNew - last.cPrev <= last.cTotal0 - last.cIssued0
    /\ clientMap[last.id].issued = last.cNew

\* a client holding credits is raised up to the cap cPrev + (cTotal - cIssued)
Witness_C8 ==
  /\ IssuedFound /\ last.branch = "higher"
  /\ last.cPrev >= 1
  /\ last.demand + last.oc > last.cPrev + (last.cTotal0 - last.cIssued0)
  /\ last.cNew = last.cPrev + (last.cTotal0 - last.cIssued0)

Inv_C10 ==
  (last.op = "rtt" /\ last.committed) =>
    IF last.delay < thresholdDelay
    THEN cTotal = last.cTotal0
                  + ClaimMax(ClaimRound(aFactor[1] * numClients, aFactor[2]), 1)
    ELSE LET den == BFactor[2] * thresholdDelay
             num == den - BFactor[1] * (last.delay - thresholdDelay)
             fnum == IF 2 * num >= den THEN num ELSE 1
             fden == IF 2 * num >= den THEN den ELSE 2
         IN /\ cTotal = ClaimMax(ClaimRound(last.cTotal0 * fnum, fden), 1)
            /\ cTotal <= last.cTotal0
            /\ cTotal >= ClaimMax(ClaimRound(last.cTotal0, 2), 1)

\* a committed decrease by a factor strictly between 0.5 and 1
Witness_C10 ==
  /\ last.op = "rtt" /\ last.committed
  /\ last.delay = 1024
  /\ last.cTotal0 >= 3 /\ cTotal < last.cTotal0

\* ============================================== properties of SpecConc
\* C2 (as stated): at the moment a committed RTT update releases rttLock,
\* cIssued equals the sum of Connection.issued over all entries of clientMap,
\* whatever issuance and registration steps ran concurrently.
Claim_C2 ==
  [][(rttLock = 0 /\ rttLock' = 1) => cIssued' = totalIssuedOf(clientMap')]_vars

\* C3 (as stated): every Connection present in clientMap has issued >= 1 in
\* every reachable state.
Claim_C3 == \A id \in DOMAIN clientMap : clientMap[id].issued >= 1

\* C3 (amended): a Connection present in clientMap has issued = 0 from its
\* registration until its first grant is stored, and issued >= 1 in every
\* state from then on.
Inv_C3 ==
  \A id \in DOMAIN clientMap :
    IF id \in granted THEN clientMap[id].issued >= 1 ELSE clientMap[id].issued = 0

\* an RTT reconciliation is walking clientMap while one client holds a grant
\* and another is registered but not yet granted
Witness_C3 ==
  /\ \E w \in Workers : pc[w] = "rttrange" /\ loc[w].todo # {}
  /\ \E id \in DOMAIN clientMap : id \in granted /\ clientMap[id].issued >= 1
  /\ \E id \in DOMAIN clientMap : id \notin granted /\ clientMap[id].issued = 0

\* C5 (as stated): any two committed RTT updates are separated by more than
\* RTT_MICROSECOND, also when a call evaluated its elapsed-time check before
\* another call's update committed.
Claim_C5 == (commits >= 2) => (lastUpdateTime - prevCommitTime > RTT_MICROSECOND)

\* ============================================ properties of SpecClient
PastGate == {"unblock", "demand", "dequeue", "inflight", "responded"}

AtGate == {"gate", "woken", "credit", "expiring"}

\* C4: a request leaves the gate loop for dispatch only from its read of
\* outgoingCredits, in the step that finds the balance > 0 and puts back
\* exactly one less, so with exactly one decrement; a request that reads a
\* balance of 0 puts 0 back and returns to wait at the gate; outgoingCredits
\* is never negative.
Inv_C4 ==
  [][/\ outgoingCredits' >= 0
     /\ \A r \in Requests :
          /\ (rpc[r] \notin PastGate /\ rpc'[r] \in PastGate) =>
               /\ rpc[r] = "credit"
               /\ outgoingCredits > 0
               /\ outgoingCredits' = outgoingCredits - 1
          /\ (rpc[r] = "credit" /\ outgoingCredits = 0 /\ rpc'[r] # "credit") =>
               /\ rpc'[r] = "gate"
               /\ outgoingCredits' = 0
          /\ (rpc[r] \in PastGate /\ rpc'[r] # rpc[r] /\ rpc[r] # "inflight"
              /\ rpc[r] # "responded") =>
               outgoingCredits' = outgoingCredits]_vars

\* one request is in flight on the only credit while another, woken by a
\* re-posted gate, is about to read a balance of 0
Witness_C4 ==
  \E r1, r2 \in Requests :
    /\ rpc[r1] = "inflight"
    /\ rpc[r2] = "credit"
    /\ outgoingCredits = 0

\* ---------------------------------------------------------------- C11
\* a worker that has returned from updateCreditsToIssue and still holds the
\* call's locals
Issued(w) == pc[w] \in {"handler", "rttcheck", "rttlock"}

\* C11: when the only two issuance calls made so far were for the same client
\* and ran in one RTT window (no rttUpdate has committed), exactly one of them
\* took the post-RTT branch, the client's issued is that call's grant minus 1,
\* and cIssued moved by the same amount as Connection.issued (both from 0)
Claim_C11 ==
  \A v, w \in Workers :
    (v < w /\ Issued(v) /\ Issued(w) /\ loc[v].id = loc[w].id
       /\ calls = 2 /\ commits = 0)
    => LET id == loc[w].id
           post == {u \in {v, w} : loc[u].branch = "postrtt"}
       IN /\ Cardinality(post) = 1
          /\ \A u \in post : clientMap[id].issued = loc[u].cNew - 1
          /\ cIssued = clientMap[id].issued

\* ---------------------------------------------------------------- C12
\* the post-RTT rule as the claim words it
ClaimGrant(demand, cPrev, cT, cI, n) ==
  LET oc == ClaimOvercommit(cT, cI, n)
  IN IF cI < cT THEN ClaimMax(ClaimMin(demand + oc, cPrev + (cT - cI)), 1)
     ELSE ClaimMax(ClaimMin(demand + oc, cPrev - 1), 1)

Registering(w) == pc[w] \in {"register", "count"}

\* C13: whenever no worker is inside RegisterClient, numClients is the number
\* of entries of clientMap, whether the concurrent registrations were for
\* distinct ids or for the same id (in a server that is running)
Inv_C13 ==
  (Alive /\ \A w \in Workers : ~Registering(w))
    => numClients = Cardinality(DOMAIN clientMap)

\* two registrations of the same id ran side by side (both calls had begun
\* before either went on to issuance) and the id is counted once
Witness_C13 ==
  /\ \A w \in Workers : pc[w] = "issue" /\ loc[w].id = "c1"
  /\ DOMAIN clientMap = {"c1"}
  /\ numClients = 1

Ended(r) == rpc[r] \in {"refused", "expired", "failed", "returned"}

\* a call waiting on <-b.noCreditBlocker
Waiting(r) == rpc[r] = "gate"

\* nothing is left that would post the gate: the escape hatch has run, and
\* every call is waiting, ended or not yet made
NothingPosts ==
  /\ timer = "done"
  /\ \A r \in Requests : Waiting(r) \/ Ended(r) \/ rpc[r] = "idle"

\* C16: no reachable state has a request blocked at the gate while
\* outgoingCredits is 0, the gate is empty, no request is in flight and no
\* pending action will post to the gate
Claim_C16 ==
  ~ /\ \E r \in Requests : Waiting(r)
    /\ outgoingCredits = 0
    /\ noCreditBlocker = 0
    /\ NothingPosts

\* ---------------------------------------------------------------- C15
\* time.Since(timeStart) of call r is beyond aqmDelay
Overdue(r) == (now - rq[r].timeStart) > aqmDelay

\* C15: with useClientTimeExpiration enabled, a request waiting at the gate
\* whose time in queue exceeds aqmDelay is eventually rejected (its queue slot
\* released by then), and a request woken with its time in queue beyond
\* aqmDelay goes on to the rejection, never to the credit check
Claim_C15 ==
  /\ \A r \in Requests :
       (useClientTimeExpiration /\ Waiting(r) /\ Overdue(r)) ~> (rpc[r] = "expired")
  /\ [][\A r \in Requests :
         (useClientTimeExpiration /\ rpc[r] = "woken" /\ Overdue(r))
           => rpc'[r] \in {"woken", "expiring"}]_vars

\* ---------------------------------------------------------------- C17
\* a call that has left the gate loop, by the break or by the expiry return
LeftGate(r) ==
  rpc[r] \in {"expiring", "expired", "unblock", "demand", "dequeue", "inflight",
              "failed", "responded", "returned"}

\* C17: the escape hatch sets outgoingCredits to the sentinel and then posts
\* the gate, and when requests were waiting at the gate as it posted, one of
\* those requests later leaves the gate
Claim_C17 ==
  /\ [][/\ (timer = "armed" /\ timer' = "fired") => outgoingCredits' = TimeoutCredits
        /\ (timer = "fired" /\ timer' = "done") => noCreditBlocker' = 1]_vars
  /\ (hatched \notin {Unwatched, {}}) ~> (\E r \in hatched : LeftGate(r))

\* ---------------------------------------------------------------- C18
\* C18: a request whose demand, id or reqid metadata is missing or unparsable
\* is answered with InvalidArgument "missing metadata" and nothing else
\* happens: from its arrival to its return no client is registered,
\* numClients, cIssued and every Connection.issued stay as they are, and the
\* call never reaches the handler
Claim_C18 ==
  [][\A w \in Workers :
       /\ (pc[w] = "idle" /\ pc'[w] # "idle" /\ loc'[w].md # "ok")
            => /\ pc'[w] = "rejected"
               /\ UNCHANGED <<clientMap, numClients, cIssued>>
       /\ (pc[w] = "rejected" /\ pc'[w] # "rejected")
            => /\ pc'[w] = "idle"
               /\ UNCHANGED <<clientMap, numClients, cIssued>>]_vars

\* ------------------------------------------------------------------ C19
\* the interceptor's return after the handler: the request is shed (the
\* worker is idle again without having run rttUpdate) or answered normally
Shed(w) == pc[w] = "handler" /\ pc'[w] = "idle"

Answered(w) == pc[w] = "handler" /\ pc'[w] = "rttcheck"

\* C19: with load shedding on, a handled request is shed exactly when the
\* stored queueing delay exceeds aqmDelay: a shed request saw a delay above
\* aqmDelay, an answered one a delay equal to or below it
Claim_C19 ==
  [][\A w \in Workers :
       /\ Shed(w) => (loadShedding /\ queueingDelay > aqmDelay)
       /\ Answered(w) => (loadShedding => queueingDelay <= aqmDelay)]_vars

\* ------------------------------------------------------------------ C20
\* the worker has updateCreditsToIssue's result and stamps it on the header
Stamping(w) == pc[w] = "handler"

\* C20: the credits value stamped on a response is at least 1, whatever the
\* demand, the previous issued value and the branch taken
Inv_C20 == \A w \in Workers : Stamping(w) => loc[w].cNew >= 1

\* a stamp of the floor itself, given on the post-RTT branch to a negative
\* demand, while another is given on the decay branch
Witness_C20 ==
  \E w, v \in Workers :
    /\ Stamping(w) /\ loc[w].branch = "postrtt" /\ loc[w].demand < 0
    /\ loc[w].cNew = 1
    /\ Stamping(v) /\ loc[v].branch = "decay"

\* ------------------------------------------------------------------ C21
\* C21: every request that passed metadata validation runs the RTT check
\* (rttUpdate) once its handler has returned, the shed ones included: a live
\* worker leaves the handler only for rttUpdate's time comparison
Claim_C21 ==
  [][\A w \in Workers :
       (pc[w] = "handler" /\ pc'[w] \notin {"handler", "panic"})
         => pc'[w] = "rttcheck"]_vars

\* ------------------------------------------------------------------ C22
\* C22: server-side shedding is not absorbing: while requests keep arriving
\* and the runtime shows no new latency at or above aqmDelay, a stored delay
\* at or above aqmDelay is eventually refreshed by an RTT update to one below
\* it, so that the requests after it are served normally
Claim_C22 == (queueingDelay >= aqmDelay) ~> (queueingDelay < aqmDelay)

\* ------------------------------------------------------------------ C23
\* C23: a committed RTT update samples the delay adapter once: there is one
\* reading h of the runtime histogram whose delay d against the adapter's
\* previous histogram is what the AIMD rule is applied to, what is stored as
\* the AQM delay when load shedding is on, and where the adapter then stands
Claim_C23 ==
  [][commits' = commits + 1 =>
       \E h \in {schedHist, schedHist'} :
         LET d == getDelay(prevHist, h).delay
         IN /\ cTotal' = getUpdatedTotalCredits(d, cTotal, numClients)
            /\ loadShedding => queueingDelay' = d
            /\ prevHist' = h]_vars

\* ------------------------------------------------------------------ C24
\* worker w holds the id's issuedWriteLock with its grant computed and not
\* yet stored
Granting(w) == pc[w] = "store"

\* C24: the first grant of a newly registered client is computed by the
\* post-RTT branch, never by the decay, whatever time passed between the last
\* RTT update (or the server's start) and the registration: a grant computed
\* by the decay is for an id that was granted before
Claim_C24 ==
  \A w \in Workers :
    (Granting(w) /\ loc[w].branch = "decay") => loc[w].id \in granted

\* ------------------------------------------------------------------ C25
\* worker v holds rttLock and has written lastUpdateTime but not yet cTotal
Updating(v) == pc[v] \in {"rttrange", "rtttotal"}

\* worker w reads cTotal and cIssued for a post-RTT grant
ReadsTotal(w) ==
  \/ pc[w] = "overcommit" /\ pc'[w] = "calc"
  \/ pc[w] = "calc" /\ pc'[w] = "store"

\* C25: cTotal and lastUpdateTime are guarded by rttLock, so an issuance that
\* saw the lastUpdateTime an RTT update wrote computes its post-RTT grant from
\* the cTotal and the reconciled cIssued of that update: it reads them when
\* the update that wrote the lastUpdateTime it saw has written them too
Claim_C25 ==
  [][\A w \in Workers :
       ReadsTotal(w) =>
         ~\E v \in Workers : Updating(v) /\ lastUpdateTime = loc[w].seen]_vars

\* ------------------------------------------------------------------ C26
\* worker w is inside the RTT update section: it took rttLock's token and
\* has not put it back
InSection(w) == pc[w] \in {"rttstamp", "rttrange", "rtttotal", "rttrelease"}

\* C26: at most one worker is inside the RTT update section at any time, the
\* lock is empty exactly while one is, and every successful acquire of
\* rttLock is followed by its release
Inv_C26 ==
  /\ [](\A w, v \in Workers : (InSection(w) /\ InSection(v)) => w = v)
  /\ []((rttLock = 0) <=> (\E w \in Workers : InSection(w)))
  /\ \A w \in Workers : InSection(w) ~> (rttLock = 1 /\ ~InSection(w))

\* one worker is inside the section while the other is about to try the lock
Witness_C26 ==
  \E w, v \in Workers : w # v /\ InSection(w) /\ pc[v] = "rttlock"

\* ------------------------------------------------------------------ C27
\* worker w is inside updateCreditsToIssue
Issuing(w) ==
  pc[w] \in {"issue", "branch", "overcommit", "calc", "store", "add", "unlock"}

\* C27: post-RTT grants computed concurrently for different clients under
\* headroom, with no RTT update in between, add up to no more than the
\* headroom there was: from cIssued <= cTotal with every client holding at
\* least one credit, cIssued <= cTotal holds again once they have all
\* completed (commits = 1: no update since BothServed)
Claim_C27 ==
  (commits = 1 /\ \A w \in Workers : ~Issuing(w)) => cIssued <= cTotal

\* ------------------------------------------------------------------ C28
\* call r processes a successful response: the balance is written
Responds(r) == rpc[r] = "inflight" /\ rpc'[r] = "responded"

\* C28: a successful response sets outgoingCredits to max(credits, 1) when
\* the credits header is present and to max(balance, 1) when it is not; the
\* balance is at least 1 right after the write, and the call then posts the
\* gate before it returns
Inv_C28 ==
  [][\A r \in Requests :
       /\ Responds(r) =>
            /\ outgoingCredits' =
                 IF Len(rq'[r].header) > 0 THEN ClaimMax(rq'[r].header[1], 1)
                 ELSE ClaimMax(outgoingCredits, 1)
            /\ outgoingCredits' >= 1
       /\ (rpc[r] = "responded" /\ rpc'[r] # "responded") =>
            (rpc'[r] = "returned" /\ noCreditBlocker' = 1)]_vars

\* a response without the header has been processed, the balance is 1 and
\* another call waits at the gate for the post
Witness_C28 ==
  \E r, q \in Requests :
    /\ rpc[r] = "responded" /\ rq[r].header = <<>> /\ outgoingCredits = 1
    /\ rpc[q] = "gate"

\* ------------------------------------------------------------------ C29
\* a call inside the gate loop: blocked on the gate, or woken and not yet
\* through the expiry and credit checks
InLoop(r) == rpc[r] \in {"gate", "woken", "credit"}

\* the calls that have left the gate loop so far
NLeft == Cardinality({r \in Requests : LeftGate(r)})

ReadsDemand(r) == rpc[r] = "demand" /\ rpc'[r] = "dequeue"

\* C30: the demand attached to a dispatched request is the queue length
\* without the request itself, the number of other requests queued at the
\* moment of the read, so that a request dispatched while no other request
\* is queued carries demand 0
Claim_C30 ==
  [][\A r \in Requests :
       ReadsDemand(r) => rq'[r].demand = pendingOutgoing - 1]_vars

\* ------------------------------------------------------------------ C31
\* a call admitted to pendingOutgoing and not yet dispatched or expired
Admitted(r) ==
  rpc[r] \in {"gate", "woken", "credit", "unblock", "demand", "dequeue", "expiring"}

\* the step in which call r leaves the queue, by dispatch or by expiration
LeavesQueue(r) == Admitted(r) /\ ~Admitted(r)'

\* C31: the length of pendingOutgoing is the number of calls admitted and
\* not yet dispatched or expired (those of the burst included); a call
\* leaves the queue only by its dequeue at dispatch or at expiration, that
\* dequeue finds a slot and takes exactly one
Inv_C31 ==
  /\ [](pendingOutgoing = crowd + Cardinality({r \in Requests : Admitted(r)}))
  /\ [][\A r \in Requests :
          LeavesQueue(r) =>
            /\ rpc[r] \in {"dequeue", "expiring"}
            /\ rpc'[r] \in {"inflight", "expired"}
            /\ pendingOutgoing > 0
            /\ pendingOutgoing' = pendingOutgoing - 1]_vars

\* one call has expired, one has been dispatched and a third still waits:
\* the queue holds the one slot of the third
Witness_C31 ==
  /\ pendingOutgoing = 1
  /\ \E r, q, p \in Requests :
       rpc[r] = "expired" /\ rpc[q] = "inflight" /\ rpc[p] = "gate"

\* ------------------------------------------------------------------ C32
\* the calls dispatched whose response has not been processed yet
NInFlight == Cardinality({r \in Requests : rpc[r] = "inflight"})

\* the largest value a credits header carries, or the initial single credit:
\* no grant received so far is larger
LargestGrant == max(CHOOSE c \in HeaderCredits : \A d \in HeaderCredits : d <= c, 1)

\* C32: one credit backs one in-flight request: while the escape-hatch
\* timer has not fired, the number of calls dispatched and not yet answered
\* never exceeds the largest credit grant received so far (or the initial
\* single credit), and so never the largest grant there is
Claim_C32 == timer = "armed" => NInFlight <= LargestGrant

\* ------------------------------------------------------------------ C33
\* the step by which worker w's call moves on from position p (a panic of
\* the process ends the call where it is)
MovesOn(w, p) == pc[w] = p /\ pc'[w] \notin {p, "panic"}

\* the step in which worker w's RegisterClient finds its id in clientMap
Reregisters(w) == MovesOn(w, "register") /\ loc[w].id \in DOMAIN clientMap

\* worker v is inside updateCreditsToIssue for id and holds its write guard
HoldsGuard(v, id) ==
  /\ pc[v] \in {"branch", "overcommit", "calc", "store", "add", "unlock"}
  /\ loc[v].id = id

\* C33: registration is get-or-insert: RegisterClient for an id already in
\* clientMap leaves every Connection's issued, lastUpdated and write guard
\* and numClients as they are and goes on to the issuance without counting
\* the client again, also while another worker is inside the issuance for
\* the same id
Inv_C33 ==
  [][\A w \in Workers :
       Reregisters(w) =>
         /\ clientMap' = clientMap
         /\ lastUpdated' = lastUpdated
         /\ issuedWriteLock' = issuedWriteLock
         /\ numClients' = numClients
         /\ pc'[w] = "issue"]_vars

\* one client, counted once: a worker past RegisterClient waits for the
\* write guard that another worker holds inside the issuance for the same
\* id, after the grant was stored
Witness_C33 ==
  \E w, v \in Workers :
    /\ pc[w] = "issue" /\ pc[v] = "add"
    /\ HoldsGuard(v, loc[w].id)
    /\ issuedWriteLock[loc[w].id] = 0
    /\ clientMap[loc[w].id].issued >= 1
    /\ numClients = 1

\* ------------------------------------------------------------------ C34
\* the step is an issuance called for an id that is not in clientMap
IssuesUnknown ==
  last'.op = "issue" /\ last'.id \notin DOMAIN clientMap /\ last'.id \in Clients

\* C34: issuance called for an id that is not in clientMap returns a grant
\* of 0 and leaves clientMap, numClients, cIssued and cTotal unchanged
Inv_C34 ==
  [][IssuesUnknown =>
       /\ last'.cNew = 0
       /\ clientMap' = clientMap
       /\ numClients' = numClients
       /\ cIssued' = cIssued
       /\ cTotal' = cTotal]_vars

\* issuance has just been called for an id that is not registered while
\* another client is registered and holds credits
Witness_C34 ==
  /\ last.op = "issue" /\ last.branch = "notfound" /\ last.cNew = 0
  /\ last.id \in Clients \ DOMAIN clientMap
  /\ numClients = 1 /\ cIssued >= 1

\* ------------------------------------------------------------------ C35
\* what a call that does not commit leaves alone: cTotal, cIssued,
\* lastUpdateTime, the last-observed AQM delay and the delay adapter's
\* snapshots
rttState == <<cTotal, cIssued, lastUpdateTime, queueingDelay, prevHist, currHist>>

Overcommits(w) == pc[w] = "overcommit" /\ pc'[w] = "calc"

\* C36: the per-client overcommit is max(round((cTotal - cIssued) /
\* numClients), 1) and is >= 1 whenever it is computed, also with
\* cIssued >= cTotal and with numClients = 0, where it is exactly 1
Claim_C36 ==
  [][\A w \in Workers :
       Overcommits(w) =>
         /\ loc'[w].oc >= 1
         /\ loc'[w].oc = (IF numClients = 0 THEN 1
                          ELSE ClaimOvercommit(cTotal, cIssued, numClients))]_vars
====
